---- MODULE Spec2Model ----
(***************************************************************************)
(* Dose-invariant susceptibility estimator: the posterior summary          *)
(* lifecycle of lib/timeEst.py (Model.calcPosterior, Model.__calc__) and   *)
(* the likelihood assembly of lib/timeEst.py and lib/timeTestHom.py        *)
(* (Model.__init__, likelihood_deaths, likelihood_survivors, potIdeaths).  *)
(*                                                                         *)
(* Numbers.  Probabilities are fixed-point integers in units of 1/P.       *)
(* Products of two probabilities are in units of 1/(P*P); a credible       *)
(* interval bound, which interpolates between order statistics at the      *)
(* 2.5th/50th/97.5th percentile, carries a further factor PctDen.  Time is *)
(* counted in grid steps (0.2 day); a dose is 0 (control) or a power of    *)
(* ten, and a point of the dose grid is its log10 in tenths of a decade.   *)
(***************************************************************************)
EXTENDS Integers, Sequences, FiniteSets, TLC

VARIABLES
    d,        \* self.d: the data object the model was built from
    trace,    \* the file <saveTo>-MCMC.pickle: Absent or the trace it holds
    cache,    \* the file <saveTo>-postcalc.pickle: Absent or the summary it holds
    mdl,      \* the Model object's attributes set by calcPosterior/__calc__
    call,     \* the last operation: its arguments, the path it took, how it ended
    lik,      \* the likelihood side: current values and the last evaluation
    fs        \* the results folders: what each holds

vars == <<d, trace, cache, mdl, call, lik, fs>>

-----------------------------------------------------------------------------
(* Bounds of the model *)

NSamples == 3      \* samples per chain in a trace
MaxThin == 2       \* thinF ranges over 1..MaxThin
MaxChains == 2     \* chains per trace range over 1..MaxChains
MaxSubfolders == 3 \* numbered subfolders '(i)' of a results folder: 1..MaxSubfolders

(* burnin ranges over 0..NSamples, so that burnin >= chain length happens *)
Burnins == 0..NSamples
Thins == 1..MaxThin

-----------------------------------------------------------------------------
(* Arithmetic helpers *)

P == 10

Min(a, b) == IF a <= b THEN a ELSE b

Max(a, b) == IF a >= b THEN a ELSE b

RECURSIVE Insert(_, _)
Insert(x, s) ==
    IF s = <<>> THEN <<x>>
    ELSE IF x <= Head(s) THEN <<x>> \o s
    ELSE <<Head(s)>> \o Insert(x, Tail(s))

RECURSIVE Sort(_)
Sort(s) == IF s = <<>> THEN <<>> ELSE Insert(Head(s), Sort(Tail(s)))

(* A slice that drops the burn-in and keeps every sample after it *)
SliceEvery(s, burnin, thinF) ==
    IF burnin >= Len(s) THEN <<>>
    ELSE [j \in 1..(Len(s) - burnin) |-> s[burnin + j]]

(* seq[burnin:None:thinF] for burnin >= 0, thinF >= 1 *)
Slice(s, burnin, thinF) ==
    IF burnin >= Len(s) THEN <<>>
    ELSE [j \in 1..((Len(s) - burnin + thinF - 1) \div thinF) |->
             s[burnin + (j - 1) * thinF + 1]]

-----------------------------------------------------------------------------
(* The data object (lib/utils Data): what Model reads of it *)

Last(s) == s[Len(s)]

(* sum(d.doses==0) *)
RECURSIVE CountZero(_)
CountZero(doses) ==
    IF doses = <<>> THEN 0
    ELSE (IF Head(doses) = 0 THEN 1 ELSE 0) + CountZero(Tail(doses))

(* range(0+sum(d.doses==0), len(d.doses)) as 1-based positions *)
InfectedRange(dd) == (CountZero(dd.doses) + 1)..Len(dd.doses)

(* A data object with the given doses; per dose level and group the death
   times (in d.times) and the number of survivors; nhosts = deaths + survivors *)
MkData(doses, td1, td2, sv1, sv2) ==
    [doses |-> doses,
     ndoses |-> Len(doses),
     times |-> <<0, 1, 2, 3>>,
     tmax |-> 3,
     timesDeath1 |-> td1,
     timesDeath2 |-> td2,
     survivors1 |-> sv1,
     survivors2 |-> sv2,
     nhosts1 |-> [i \in 1..Len(doses) |-> Len(td1[i]) + sv1[i]],
     nhosts2 |-> [i \in 1..Len(doses) |-> Len(td2[i]) + sv2[i]]]

(* Data sets of the summary lifecycle: with a control dose and without one *)
LifeData ==
    { MkData(<<0, 1>>, << <<1>>, <<1, 2>> >>, << <<2>>, <<2>> >>, <<1, 0>>, <<1, 1>>),
      MkData(<<1, 10>>, << <<1>>, <<1, 2>> >>, << <<2>>, <<2>> >>, <<1, 0>>, <<1, 1>>) }

-----------------------------------------------------------------------------
(* Parameters and traces *)

BaseParameters ==
    <<"p", "a2", "b2", "eps", "meanI1", "sI1", "meanI2", "sI2", "meanU", "sU", "k">>

Ig1Names == <<"Ig1d0", "Ig1d1", "Ig1d2">>

Ig2Names == <<"Ig2d0", "Ig2d1", "Ig2d2">>

(* m.parameters after __init__: the priors' parameters, then Ig1d<i>, then
   Ig2d<i> for i in range(sum(doses==0), len(doses)) *)
Parameters(dd) ==
    LET lo == CountZero(dd.doses)
        n == Len(dd.doses) - lo
    IN BaseParameters \o [j \in 1..n |-> Ig1Names[lo + j]]
                      \o [j \in 1..n |-> Ig2Names[lo + j]]

ParamSet(dd) == {Parameters(dd)[j] : j \in 1..Len(Parameters(dd))}

Absent == [present |-> FALSE, variant |-> 0, nchains |-> 0]

Variants == {0, 1}

(* The traces the sampler can have written: a variant of the values, and the
   number of chains *)
Traces == {[present |-> TRUE, variant |-> v, nchains |-> c] :
              v \in Variants, c \in 1..MaxChains}

(* The i-th sample (1-based) of parameter p in chain c of trace variant v.
   Shapes are 1 or 2 and means even, so that mean/shape is exact. *)
SampleValue(p, c, i, v) ==
    CASE p = "p" -> 2 + 2 * ((i + c + v) % 3)
      [] p = "eps" -> (i + v) % 2
      [] p = "a2" -> 1 + ((i + c) % 3)
      [] p = "b2" -> 1 + ((i + v) % 2)
      [] p = "meanU" -> 6 + 2 * ((i + v) % 2)
      [] p = "sU" -> 1 + (i % 2)
      [] p = "meanI1" -> 2 + 2 * ((i + v) % 2)
      [] p = "sI1" -> 1 + ((i + c) % 2)
      [] p = "meanI2" -> 4 + 2 * ((i + c + v) % 2)
      [] p = "sI2" -> 1 + ((i + 1) % 2)
      [] p = "k" -> (i + c + v) % 2
      [] OTHER -> (i + c + v) % 2

(* M2 = pickle.load(open(saveTo+'-MCMC.pickle')): M2[p][c] is chain c of p *)
M2(dd, tr) ==
    [p \in ParamSet(dd) |->
        [c \in 0..(tr.nchains - 1) |->
            [i \in 1..NSamples |-> SampleValue(p, c, i, tr.variant)]]]

(* Lines 273-278 of __calc__ for one parameter: chain 0 sliced, then, with
   more than one chain, the loop header nchains[1:] subscripts the int
   nchains and raises TypeError before any further chain is read *)
LoadParam(chains, burnin, thinF) ==
    LET vals == Slice(chains[0], burnin, thinF)
        nchains == Cardinality(DOMAIN chains)
    IN [raised |-> nchains > 1, vals |-> vals]

(* The loop of lines 272-281 over self.parameters *)
LoadSamples(dd, M, burnin, thinF) ==
    LET r == [p \in ParamSet(dd) |-> LoadParam(M[p], burnin, thinF)]
    IN [raised |-> \E p \in ParamSet(dd) : r[p].raised,
        samples |-> [p \in ParamSet(dd) |-> r[p].vals]]

-----------------------------------------------------------------------------
(* lib/utils: hazard kernel, infection response, credible interval.  The
   module is not part of the sources at hand; these follow the
   specification's description with fixed-point stand-ins. *)

(* scale = mean/shape, elementwise (lines 282-284) *)
Tau(mean, s) == mean \div s

(* ut.kpdfInt(0, t, s, tau, k): cumulative death probability by time t, in
   units of 1/P; non-decreasing in t, 0 at t = 0, at most 1 *)
KCdf(t, s, tau, k) == Min(P, (P * t) \div (t + s * tau) + k * t)

(* ut.kpdfInt(t1, t2, s, tau, k) *)
KpdfInt(t1, t2, s, tau, k) == KCdf(t2, s, tau, k) - KCdf(t1, s, tau, k)

(* ut.kpdf(t, s, tau, k): the density, in units of 1/P *)
Kpdf(t, s, tau, k) == Min(P, k + (P * s * tau) \div ((t + s * tau) * (t + s * tau)))

(* log10 of a positive dose, in tenths of a decade *)
Log10T(dose) ==
    CASE dose = 1 -> 0
      [] dose = 10 -> 10
      [] dose = 100 -> 20

(* ut.pi_hom at a dose given by its log10 in tenths of a decade *)
PiHomL(e, p, eps) == ((P - eps) * Min(P, (p * Max(0, e + 11)) \div 11)) \div P

(* ut.pi_hom(dose, p, eps): 0 at dose 0 *)
PiHom(dose, p, eps) == IF dose = 0 THEN 0 ELSE PiHomL(Log10T(dose), p, eps)

(* ut.pi_het at a log-dose: susceptibility beta(a, b)-distributed around p *)
PiHetL(e, p, a, b, eps) == PiHomL(e, (p * a) \div (a + b), eps)

(* ut.pi_het(dose, p, a, b, eps) *)
PiHet(dose, p, a, b, eps) ==
    IF dose = 0 THEN 0 ELSE PiHetL(Log10T(dose), p, a, b, eps)

(* Percentiles of ut.confint, in units of 1/PctDen: 2.5, 50, 97.5 *)
PctDen == 40

PctNum == <<1, 20, 39>>

(* What a percentile of no samples is (not a number) *)
NaN == 0 - (P * P * PctDen) - 1

(* The q/PctDen percentile of the sorted samples xs, linearly interpolated,
   times PctDen *)
Pct(xs, q) ==
    IF xs = <<>> THEN NaN
    ELSE LET pos == (Len(xs) - 1) * q
             i == pos \div PctDen
             f == pos % PctDen
         IN IF f = 0 THEN xs[i + 1] * PctDen
            ELSE xs[i + 1] * PctDen + f * (xs[i + 2] - xs[i + 1])

(* ut.confint of a 1-D array over the samples: (lower, median, upper) *)
Confint1(xs) == LET srt == Sort(xs) IN [b \in 1..3 |-> Pct(srt, PctNum[b])]

(* ut.confint of a 2-D array X[sample][column], reduced along the samples:
   result[bound][column] *)
Confint(X, ncols) ==
    LET ci == [c \in 1..ncols |-> Confint1([j \in 1..Len(X) |-> X[j][c]])]
    IN [b \in 1..3 |-> [c \in 1..ncols |-> ci[c][b]]]

-----------------------------------------------------------------------------
(* Model.__calc__, lines 289-344: the summary curves from the sample arrays *)

(* Grid steps per day: ts has step 0.2 (line 289) *)
StepsPerDay == 5

(* Dose grid points per decade: x2 has step 0.1 in log10 (line 330) *)
StepsPerDecade == 10

(* ts = np.arange(0, d.times[-1]+1, 0.2), in grid steps *)
Ts(dd) == [i \in 1..(Last(dd.times) + StepsPerDay) |-> i - 1]

(* The first positive dose, d.doses[d.doses>0][0] *)
FirstPositive(doses) == doses[CHOOSE i \in 1..Len(doses) :
                                 doses[i] > 0 /\ \A j \in 1..(i - 1) : doses[j] <= 0]

(* x2 = 10**np.arange(log10(first positive dose)-1, log10(last dose)+1, 0.1),
   each point given by its log10 in tenths of a decade *)
X2(dd) ==
    LET lo == Log10T(FirstPositive(dd.doses)) - StepsPerDecade
        hi == Log10T(Last(dd.doses)) + StepsPerDecade
    IN [i \in 1..(hi - lo) |-> lo + i - 1]

(* 1 - pi*cdfI - (1-pi)*cdfU per sample and time, in units of 1/(P*P)
   (lines 321-322) *)
Mixture(pis, cdfI, cdfU, nt) ==
    [j \in 1..Len(pis) |-> [t \in 1..nt |->
        P * P - pis[j] * cdfI[j][t] - (P - pis[j]) * cdfU[j][t]]]

(* 1 - cdfU per sample and time, in units of 1/(P*P) (lines 313-314) *)
Uninfected(cdfU, nt) ==
    [j \in 1..Len(cdfU) |-> [t \in 1..nt |-> P * (P - cdfU[j][t])]]

(* cdf<g>_ci[bound][dose level][time]: row 0 is the uninfected curve
   (lines 313-314), rows 1..ndoses-1 the mixture at doses[di] (lines 317-322) *)
SurvivalCI(dd, pisAt, cdfI, cdfU, nt) ==
    LET row(di) == IF di = 1 THEN Confint(Uninfected(cdfU, nt), nt)
                   ELSE Confint(Mixture(pisAt[di], cdfI, cdfU, nt), nt)
        rows == [di \in 1..dd.ndoses |-> row(di)]
    IN [b \in 1..3 |-> [di \in 1..dd.ndoses |-> rows[di][b]]]

(* pi<g>_ci[bound][grid point] (lines 331-336) *)
DoseResponseCI(piAtX, nx) ==
    LET ci == [i \in 1..nx |-> Confint1(piAtX[i])]
    IN [b \in 1..3 |-> [i \in 1..nx |-> ci[i][b]]]

(* The derived scale arrays set on the model (lines 282-287) *)
TauArrays(S) ==
    LET n == Len(S["sU"])
    IN [tauUs |-> [j \in 1..n |-> Tau(S["meanU"][j], S["sU"][j])],
        tauI1s |-> [j \in 1..n |-> Tau(S["meanI1"][j], S["sI1"][j])],
        tauI2s |-> [j \in 1..n |-> Tau(S["meanI2"][j], S["sI2"][j])]]

(* Every name of Model.vals as __calc__ computes it from the sample arrays S *)
Summarize(dd, S) ==
    LET n == Len(S["sU"])
        tau == TauArrays(S)
        ts == Ts(dd)
        nt == Len(ts)
        kern(f(_, _, _, _), ss, taus) ==
            [j \in 1..n |-> [t \in 1..nt |-> f(ts[t], ss[j], taus[j], S["k"][j])]]
        pdfI1 == kern(Kpdf, S["sI1"], tau.tauI1s)
        pdfI2 == kern(Kpdf, S["sI2"], tau.tauI2s)
        cdfU == kern(KCdf, S["sU"], tau.tauUs)
        cdfI1 == kern(KCdf, S["sI1"], tau.tauI1s)
        cdfI2 == kern(KCdf, S["sI2"], tau.tauI2s)
        pi1s == [di \in 1..dd.ndoses |->
                    [j \in 1..n |-> PiHom(dd.doses[di], S["p"][j], S["eps"][j])]]
        pi2s == [di \in 1..dd.ndoses |->
                    [j \in 1..n |-> PiHet(dd.doses[di], S["p"][j], S["a2"][j],
                                          S["b2"][j], S["eps"][j])]]
        x2 == X2(dd)
        nx == Len(x2)
        pi1x == [i \in 1..nx |-> [j \in 1..n |-> PiHomL(x2[i], S["p"][j], S["eps"][j])]]
        pi2x == [i \in 1..nx |-> [j \in 1..n |-> PiHetL(x2[i], S["p"][j], S["a2"][j],
                                                         S["b2"][j], S["eps"][j])]]
        dcdfU == [j \in 1..n |-> [t \in 1..(nt - 1) |-> cdfU[j][t + 1] - cdfU[j][t]]]
    IN [ts |-> ts,
        cdf1_ci |-> SurvivalCI(dd, pi1s, cdfI1, cdfU, nt),
        cdf2_ci |-> SurvivalCI(dd, pi2s, cdfI2, cdfU, nt),
        x2 |-> x2,
        pi1_ci |-> DoseResponseCI(pi1x, nx),
        pi2_ci |-> DoseResponseCI(pi2x, nx),
        pdfU |-> Confint(dcdfU, nt - 1),
        cdfU |-> Confint(cdfU, nt),
        pdfI1 |-> Confint(pdfI1, nt),
        pdfI2 |-> Confint(pdfI2, nt)]

-----------------------------------------------------------------------------
(* Model construction: latent infection counts and likelihood terms *)

MaxSurvivors == 2  \* survivors per group and dose level range over 0..MaxSurvivors

(* Data sets of the likelihood side: a control and one dose, or two doses
   and no control; the survivors of every infected dose level vary *)
LikData ==
    { MkData(<<0, 1>>, << <<1>>, <<1, 2>> >>, << <<3>>, <<2, 3>> >>, <<1, s1>>, <<1, s2>>) :
          s1 \in 0..MaxSurvivors, s2 \in 0..MaxSurvivors }
    \cup
    { MkData(<<1, 10>>, << <<1>>, <<1, 2>> >>, << <<3>>, <<2, 3>> >>, <<s1, t1>>, <<s2, t2>>) :
          s1 \in 0..MaxSurvivors, s2 \in 0..MaxSurvivors,
          t1 \in 0..MaxSurvivors, t2 \in 0..MaxSurvivors }

RECURSIVE CountBefore(_, _, _)
(* (timesDeath < tmax/2.).sum() *)
CountBefore(tds, num, den) ==
    IF tds = <<>> THEN 0
    ELSE (IF den * Head(tds) < num THEN 1 ELSE 0) + CountBefore(Tail(tds), num, den)

(* Latent counts whose trials are the deaths alone, survivors left out *)
RECURSIVE LatentsDeathsOnly(_, _)
LatentsDeathsOnly(dd, pos) ==
    IF pos > Len(dd.doses) THEN <<>>
    ELSE << [group |-> 1, sub |-> "", dose |-> pos - 1, n |-> Len(dd.timesDeath1[pos]),
             value |-> CountBefore(dd.timesDeath1[pos], dd.tmax, 2)],
            [group |-> 2, sub |-> "", dose |-> pos - 1, n |-> Len(dd.timesDeath2[pos]),
             value |-> CountBefore(dd.timesDeath2[pos], dd.tmax, 2)] >>
         \o LatentsDeathsOnly(dd, pos + 1)

(* The latent counts of timeEst.py lines 158-164, in creation order:
   Ig<g>d<i> is Binomial(n = nhosts<g>[i], p = pi_hom<i> or pi_het<i>)
   starting at the deaths before tmax/2; i is the 0-based dose index *)
RECURSIVE Latents(_, _)
Latents(dd, pos) ==
    IF pos > Len(dd.doses) THEN <<>>
    ELSE << [group |-> 1, sub |-> "", dose |-> pos - 1, n |-> dd.nhosts1[pos],
             value |-> CountBefore(dd.timesDeath1[pos], dd.tmax, 2)],
            [group |-> 2, sub |-> "", dose |-> pos - 1, n |-> dd.nhosts2[pos],
             value |-> CountBefore(dd.timesDeath2[pos], dd.tmax, 2)] >>
         \o Latents(dd, pos + 1)

(* The latent counts of timeTestHom.py lines 100-109: I<g>hom<i> and
   I<g>het<i>, Binomial(n = nhosts<g>[i]) with no starting value given *)
RECURSIVE LatentsHom(_, _)
LatentsHom(dd, pos) ==
    IF pos > Len(dd.doses) THEN <<>>
    ELSE << [group |-> 1, sub |-> "hom", dose |-> pos - 1, n |-> dd.nhosts1[pos]],
            [group |-> 1, sub |-> "het", dose |-> pos - 1, n |-> dd.nhosts1[pos]],
            [group |-> 2, sub |-> "hom", dose |-> pos - 1, n |-> dd.nhosts2[pos]],
            [group |-> 2, sub |-> "het", dose |-> pos - 1, n |-> dd.nhosts2[pos]] >>
         \o LatentsHom(dd, pos + 1)

(* ut.changingTimes: the distinct death times of both groups, ascending *)
ChangeTimes(dd) ==
    LET all == UNION {{dd.timesDeath1[i][j] : j \in 1..Len(dd.timesDeath1[i])} \cup
                      {dd.timesDeath2[i][j] : j \in 1..Len(dd.timesDeath2[i])} :
                      i \in 1..Len(dd.doses)}
        pick[S \in SUBSET all] ==
            IF S = {} THEN <<>>
            ELSE LET m == CHOOSE x \in S : \A y \in S : x <= y
                 IN <<m>> \o pick[S \ {m}]
    IN pick[all]

(* iTd<g>[i]: for each death of the dose level, the 0-based position of its
   time among the change times *)
DeathIndices(dd, tds) ==
    LET ct == ChangeTimes(dd)
    IN [j \in 1..Len(tds) |-> (CHOOSE c \in 1..Len(ct) : ct[c] = tds[j]) - 1]

(* A likelihood term: the Stochastic's name parts (kind, group, sub-model,
   0-based dose index) and its parents *)
Term(dd, kind, g, sub, pos, value) ==
    [kind |-> kind, group |-> g, sub |-> sub, dose |-> pos - 1,
     nf |-> IF g = 1 THEN dd.nhosts1[pos] ELSE dd.nhosts2[pos],
     I |-> [group |-> g, sub |-> sub, dose |-> pos - 1],
     probI |-> IF kind = "LD" THEN (IF g = 1 THEN "probdI1" ELSE "probdI2")
               ELSE (IF g = 1 THEN "probsI1" ELSE "probsI2"),
     probU |-> IF kind = "LD" THEN "probdU" ELSE "probsU",
     value |-> value]

(* LD<g>_d<i> (lines 200, 207): likelihood_deaths observed at iTd<g>[i] *)
DeathTerm(dd, g, sub, pos) ==
    LET tds == IF g = 1 THEN dd.timesDeath1[pos] ELSE dd.timesDeath2[pos]
    IN << Term(dd, "LD", g, sub, pos, DeathIndices(dd, tds)) >>

(* The survivor term created whether or not there are survivors *)
SurvivorTermAlways(dd, g, sub, pos) ==
    LET sv == IF g = 1 THEN dd.survivors1[pos] ELSE dd.survivors2[pos]
    IN << Term(dd, "LS", g, sub, pos, <<sv>>) >>

(* LS<g>_d<i> (lines 203-205, 210-212): likelihood_survivors observed at
   survivors<g>[i], created only when there are survivors *)
SurvivorTerm(dd, g, sub, pos) ==
    LET sv == IF g = 1 THEN dd.survivors1[pos] ELSE dd.survivors2[pos]
    IN IF sv > 0 THEN << Term(dd, "LS", g, sub, pos, <<sv>>) >> ELSE <<>>

(* m.liks with each term's parents, timeEst.py lines 198-212 *)
RECURSIVE Liks(_, _)
Liks(dd, pos) ==
    IF pos > Len(dd.doses) THEN <<>>
    ELSE DeathTerm(dd, 1, "", pos) \o SurvivorTerm(dd, 1, "", pos)
         \o DeathTerm(dd, 2, "", pos) \o SurvivorTerm(dd, 2, "", pos)
         \o Liks(dd, pos + 1)

(* m.hom<g>liks / m.het<g>liks of timeTestHom.py, lines 145-172 *)
RECURSIVE SubLiks(_, _, _, _)
SubLiks(dd, g, sub, pos) ==
    IF pos > Len(dd.doses) THEN <<>>
    ELSE DeathTerm(dd, g, sub, pos) \o SurvivorTerm(dd, g, sub, pos)
         \o SubLiks(dd, g, sub, pos + 1)

(* m.liks = m.hom1liks+m.hom2liks+m.het1liks+m.het2liks, line 186 *)
LiksHom(dd, pos) ==
    SubLiks(dd, 1, "hom", pos) \o SubLiks(dd, 2, "hom", pos)
    \o SubLiks(dd, 1, "het", pos) \o SubLiks(dd, 2, "het", pos)

ModelVariants == {"timeEst", "testHom"}

-----------------------------------------------------------------------------
(* Likelihood functions and constraint potentials *)

(* scipy.stats.gamma.cdf(t, s, loc=0, scale=tau), in units of 1/P: a library
   function, here a stand-in that grows with t and falls with the mean s*tau *)
GammaCdf(t, s, tau) == (P * t) \div (t + s * tau)

RECURSIVE MaxOf(_)
MaxOf(s) == IF Len(s) = 1 THEN s[1] ELSE Max(Head(s), MaxOf(Tail(s)))

(* Log-probabilities of the potentials: -infinity, or the finite value v *)
Finite(v) == [inf |-> FALSE, v |-> v]

MinusInf == [inf |-> TRUE, v |-> 0]

AddLogp(a, b) == IF a.inf \/ b.inf THEN MinusInf ELSE Finite(a.v + b.v)

(* A gate that also rejects equal cumulative probabilities *)
PotIdeathsStrict(dd, sI, tauI, sU, tauU) ==
    IF GammaCdf(MaxOf(dd.times), sI, tauI) > GammaCdf(MaxOf(dd.times), sU, tauU)
    THEN Finite(0) ELSE MinusInf

(* potIdeaths1 / potIdeaths2, timeEst.py lines 215-221 *)
PotIdeaths(dd, sI, tauI, sU, tauU) ==
    IF GammaCdf(MaxOf(dd.times), sI, tauI) >= GammaCdf(MaxOf(dd.times), sU, tauU)
    THEN Finite(0) ELSE MinusInf

(* potIdeaths1 / potIdeaths2, timeTestHom.py lines 175-181 *)
PotIdeathsHom(dd, sI, tauI, sU, tauU) ==
    IF GammaCdf(MaxOf(dd.times), sI, tauI) >= GammaCdf(MaxOf(dd.times), sU, tauU)
    THEN Finite(0) ELSE MinusInf

RECURSIVE Power(_, _)
Power(a, n) == IF n = 0 THEN 1 ELSE a * Power(a, n - 1)

(* likelihood_deaths (timeEst.py 183-188; the same text in timeTestHom.py
   129-134).  The
   mixture (I/nf)*probdI[value]+(1-(I/nf))*probdU[value] is kept times nf;
   mix is the mixture per observed death, handed what np.log receives *)
LikelihoodDeaths(value, nf, I, probdI, probdU) ==
    LET res == [x \in 1..Len(value) |->
                   I * probdI[value[x] + 1] + (nf - I) * probdU[value[x] + 1]]
        inf0 == [x \in 1..Len(value) |-> res[x] < 0]
        clamped == IF \E x \in 1..Len(value) : inf0[x]
                   THEN [x \in 1..Len(value) |-> IF res[x] < 0 THEN 0 ELSE res[x]]
                   ELSE res
    IN [mix |-> res, handed |-> clamped]

(* likelihood_survivors (timeEst.py 190-195; the same text in timeTestHom.py
   136-141).  The
   mixture is kept times nf, its power times nf**value; the test res<0 is
   made on the power *)
LikelihoodSurvivors(value, nf, I, probsI, probsU) ==
    LET mix == I * probsI + (nf - I) * probsU
        res == Power(mix, value)
        inf0 == res < 0
    IN [mix |-> <<mix>>, handed |-> <<IF inf0 THEN 0 ELSE res>>]

(* np.log(handed).sum(): not a number if any argument is negative, else
   -infinity if any is 0, else finite *)
LogSum(handed) ==
    IF \E x \in 1..Len(handed) : handed[x] < 0 THEN "nan"
    ELSE IF \E x \in 1..Len(handed) : handed[x] = 0 THEN "neginf"
    ELSE "finite"

-----------------------------------------------------------------------------
(* The Model object and the two files of the summary lifecycle *)

(* for v in m.vals: setattr(m, v, None)  (lines 227-230) *)
NoVals ==
    [ts |-> <<>>, cdf1_ci |-> <<>>, cdf2_ci |-> <<>>, x2 |-> <<>>, pi1_ci |-> <<>>,
     pi2_ci |-> <<>>, pdfU |-> <<>>, cdfU |-> <<>>, pdfI1 |-> <<>>, pdfI2 |-> <<>>]

NoSamples(dd) == [p \in ParamSet(dd) |-> <<>>]

NoTaus == [tauUs |-> <<>>, tauI1s |-> <<>>, tauI2s |-> <<>>]

(* The attributes after Model.__init__: every name of vals is None, no
   '<parameter>s' and no tau array exists yet *)
NewModel(dd) ==
    [vals |-> NoVals,
     hasSamples |-> FALSE, samples |-> NoSamples(dd),
     hasTaus |-> FALSE, taus |-> NoTaus]

NoCache(dd) ==
    [present |-> FALSE, burnin |-> 0, thinF |-> 0, vals |-> NoVals,
     samples |-> NoSamples(dd)]

NoCall ==
    [op |-> "init", burnin |-> 0, thinF |-> 1, bOverWrite |-> FALSE,
     path |-> "none", outcome |-> "ok", seq |-> 0,
     cacheWas |-> [present |-> FALSE, burnin |-> 0, thinF |-> 0],
     traceWas |-> Absent]

(* The results folders play no part in the summary lifecycle or the
   likelihood side *)
NoFs == [folders |-> <<>>, traces |-> {}]

(* The likelihood side is idle during the summary lifecycle *)
NoLik == [built |-> FALSE]

(* What __calc__ derives from the trace file tr for (burnin, thinF): the
   loaded sample arrays (lines 272-281), the scale arrays (282-287) and the
   curves (289-344) *)
Derive(dd, tr, burnin, thinF) ==
    LET ld == LoadSamples(dd, M2(dd, tr), burnin, thinF)
    IN [raised |-> ld.raised,
        samples |-> ld.samples,
        taus |-> TauArrays(ld.samples),
        vals |-> Summarize(dd, ld.samples)]

(* Derive, tabulated once for every data set, trace and (burnin, thinF) *)
Derived ==
    [dd \in LifeData |-> [tr \in Traces |-> [burnin \in Burnins |-> [thinF \in Thins |->
        Derive(dd, tr, burnin, thinF)]]]]

(* Model.__calc__(M2, burnin, thinF) on the model mm with cache file cc, dv
   being what the trace yields for (burnin, thinF).  With no sample left
   after burn-in the utilities reduce empty arrays: crash says whether that
   raises or yields NaN curves *)
Calc(mm, cc, dv, burnin, thinF, crash) ==
    LET m1 == [mm EXCEPT !.hasSamples = TRUE, !.samples = dv.samples,
                         !.hasTaus = TRUE, !.taus = dv.taus]
    IN IF dv.raised
       THEN [path |-> "calc", outcome |-> "TypeError", mdl |-> mm, cache |-> cc]
       ELSE IF dv.samples["sU"] = <<>> /\ crash
       THEN [path |-> "calc", outcome |-> "error", mdl |-> m1, cache |-> cc]
       ELSE [path |-> "calc", outcome |-> "ok",
             mdl |-> [m1 EXCEPT !.vals = dv.vals],
             cache |-> [present |-> TRUE, burnin |-> burnin, thinF |-> thinF,
                        vals |-> dv.vals, samples |-> dv.samples]]

(* Whether the reduction of empty sample arrays is reached: only then does
   its outcome matter *)
ReducesEmpty(dd, cc, tr, burnin, thinF, bOverWrite) ==
    /\ bOverWrite \/ ~cc.present
    /\ tr.present
    /\ ~Derived[dd][tr][burnin][thinF].raised
    /\ Derived[dd][tr][burnin][thinF].samples["sU"] = <<>>

(* The import branch of calcPosterior, lines 259-263 *)
Import(mm, saved) ==
    [mm EXCEPT !.vals = saved.vals, !.hasSamples = TRUE, !.samples = saved.samples]

(* A test of line 257 that forgets the thinning factor *)
CacheMatchesBurninOnly(saved, burnin, thinF) == saved.burnin = burnin

(* The test of line 257 *)
CacheMatches(saved, burnin, thinF) == saved.burnin = burnin /\ saved.thinF = thinF

(* Model.calcPosterior(burnin, thinF, bOverWrite), lines 250-266: what it
   leaves in the model and the cache file, the path it took and how it ended *)
CalcPosteriorResult(dd, mm, cc, tr, burnin, thinF, bOverWrite, crash) ==
    LET fromTrace ==
            IF ~tr.present
            THEN [path |-> "none", outcome |-> "IOError", mdl |-> mm, cache |-> cc]
            ELSE Calc(mm, cc, Derived[dd][tr][burnin][thinF], burnin, thinF, crash)
    IN IF bOverWrite THEN fromTrace
       ELSE IF cc.present
       THEN IF CacheMatches(cc, burnin, thinF)
            THEN [path |-> "import", outcome |-> "ok", mdl |-> Import(mm, cc),
                  cache |-> cc]
            ELSE [path |-> "none", outcome |-> "ok", mdl |-> mm, cache |-> cc]
       ELSE fromTrace

-----------------------------------------------------------------------------
(* The summary lifecycle *)

Init ==
    /\ d \in LifeData
    /\ trace \in {Absent} \cup Traces
    /\ cache = NoCache(d)
    /\ mdl = NewModel(d)
    /\ call = NoCall
    /\ lik = NoLik
    /\ fs = NoFs

CalcPosterior ==
    \E burnin \in Burnins, thinF \in Thins, bOverWrite \in BOOLEAN :
      \E crash \in IF ReducesEmpty(d, cache, trace, burnin, thinF, bOverWrite)
                   THEN BOOLEAN ELSE {FALSE} :
        \E r \in {CalcPosteriorResult(d, mdl, cache, trace, burnin, thinF, bOverWrite, crash)} :
           /\ mdl' = r.mdl
           /\ cache' = r.cache
           /\ call' = [op |-> "calcPosterior", burnin |-> burnin, thinF |-> thinF,
                       bOverWrite |-> bOverWrite, path |-> r.path,
                       outcome |-> r.outcome, seq |-> 1 - call.seq,
                       cacheWas |-> [present |-> cache.present,
                                     burnin |-> cache.burnin, thinF |-> cache.thinF],
                       traceWas |-> trace]
           /\ UNCHANGED <<d, trace, lik, fs>>

(* The sampler writes a trace file (the engine is outside these sources) *)
RunMCMC ==
    \E tr \in Traces :
        /\ trace' = tr
        /\ call' = [NoCall EXCEPT !.op = "sample", !.seq = 1 - call.seq]
        /\ UNCHANGED <<d, cache, mdl, lik, fs>>

(* A later session constructs the Model anew on the same results folder:
   Model.__init__ sets every name of vals to None (lines 227-230); the files
   of the folder stay as they are *)
ModelInit ==
    /\ mdl' = NewModel(d)
    /\ call' = [NoCall EXCEPT !.op = "construct", !.seq = 1 - call.seq]
    /\ UNCHANGED <<d, trace, cache, lik, fs>>

Next == CalcPosterior \/ RunMCMC \/ ModelInit

Spec == Init /\ [][Next]_vars

-----------------------------------------------------------------------------
(* The likelihood side: the model is built, then the sampler evaluates the
   terms and the potentials at the current values, iteration after iteration *)

(* Values the hazard kernel hands over as probabilities, in units of 1/P;
   floating-point cancellation can make one slightly negative *)
ProbVals == {0 - 1, 0, 3, P}

(* Interval death probabilities at the n change times *)
DeathProbArrays(n) ==
    {[c \in 1..n |-> a] : a \in ProbVals} \cup {[c \in 1..n |-> IF c % 2 = 1 THEN 0 - 1 ELSE 3]}

(* Shape and scale values of the hazard regimes *)
Regimes == {[s |-> 1, tau |-> 1], [s |-> 1, tau |-> 2], [s |-> 2, tau |-> 1],
            [s |-> 2, tau |-> 3]}

(* Kernel outputs at a run of __lik_setup__: the death probabilities of the
   infected and the uninfected at the n change times, and the survival
   probabilities *)
DeathProbPairs(n) ==
    {[I |-> [c \in 1..n |-> 3], U |-> [c \in 1..n |-> 3]],
     [I |-> [c \in 1..n |-> 0], U |-> [c \in 1..n |-> 3]],
     [I |-> [c \in 1..n |-> 0 - 1], U |-> [c \in 1..n |-> 0]],
     [I |-> [c \in 1..n |-> IF c % 2 = 1 THEN 0 - 1 ELSE 3], U |-> [c \in 1..n |-> 3]]}

SurvProbPairs == {[I |-> 3, U |-> 3], [I |-> 0, U |-> 3], [I |-> 0 - 1, U |-> 0 - 1],
                  [I |-> 0, U |-> 0]}

(* The uninfected regime at a run of __lik_setup__ *)
SetupRegimeU == [s |-> 1, tau |-> 2]

(* The current values __lik_setup__ can meet: regimes, kernel outputs, and
   the latent counts all at 0 or all at nf *)
SetupValues(dd) ==
    {[regI1 |-> r1, regI2 |-> r2, regU |-> SetupRegimeU,
      probdI |-> pd.I, probdU |-> pd.U, probsI |-> ps.I, probsU |-> ps.U,
      infected |-> inf] :
        r1 \in Regimes, r2 \in Regimes, pd \in DeathProbPairs(Len(ChangeTimes(dd))),
        ps \in SurvProbPairs, inf \in BOOLEAN}

NoSetupValues ==
    [regI1 |-> SetupRegimeU, regI2 |-> SetupRegimeU, regU |-> SetupRegimeU,
     probdI |-> <<>>, probdU |-> <<>>, probsI |-> 0, probsU |-> 0, infected |-> FALSE]

(* getattr(m, l).logp of the term t at the values v *)
TermLogp(t, v) ==
    IF t.kind = "LD"
    THEN LogSum(LikelihoodDeaths(t.value, t.nf, IF v.infected THEN t.nf ELSE 0,
                                 v.probdI, v.probdU).handed)
    ELSE LogSum(LikelihoodSurvivors(t.value[1], t.nf, IF v.infected THEN t.nf ELSE 0,
                                    v.probsI, v.probsU).handed)

(* A setup whose potentials are created outside the try block *)
LikSetupTermsOnly(dd, liks, v) ==
    IF \E k \in 1..Len(liks) : TermLogp(liks[k], v) = "neginf" THEN 1 ELSE 0

(* __lik_setup__, timeTestHom.py lines 96-192: pymc raises ZeroProbability
   when a Stochastic or a Potential is created, or its logp is read, at
   values where its logp is -infinity; everything from the first latent to
   the sum of line 188 is inside the try, and the handler of line 190 sets
   zeroprob=1 *)
LikSetup(dd, liks, v) ==
    IF \E k \in 1..Len(liks) : TermLogp(liks[k], v) = "neginf" THEN 1
    ELSE IF PotIdeathsHom(dd, v.regI1.s, v.regI1.tau, v.regU.s, v.regU.tau).inf THEN 1
    ELSE IF PotIdeathsHom(dd, v.regI2.s, v.regI2.tau, v.regU.s, v.regU.tau).inf THEN 1
    ELSE 0

NoEval ==
    [kind |-> "none", term |-> 0, I |-> 0, probI |-> <<>>, probU |-> <<>>,
     mix |-> <<>>, handed |-> <<>>, result |-> "none",
     regI1 |-> [s |-> 1, tau |-> 1], regI2 |-> [s |-> 1, tau |-> 1],
     regU |-> [s |-> 1, tau |-> 1],
     pot1 |-> Finite(0), pot2 |-> Finite(0), joint |-> Finite(0),
     values |-> NoSetupValues, zeroprob |-> 0]

(* Model.__init__ (timeEst.py) or __lik_setup__ (timeTestHom.py) on data dd *)
BuildModel(dd, variant) ==
    [built |-> TRUE,
     variant |-> variant,
     latents |-> IF variant = "timeEst" THEN Latents(dd, CountZero(dd.doses) + 1)
                 ELSE LatentsHom(dd, CountZero(dd.doses) + 1),
     liks |-> IF variant = "timeEst" THEN Liks(dd, CountZero(dd.doses) + 1)
              ELSE LiksHom(dd, CountZero(dd.doses) + 1),
     stage |-> "idle",
     last |-> NoEval]

InitLik ==
    /\ d \in LikData
    /\ \E variant \in ModelVariants : lik = BuildModel(d, variant)
    /\ trace = Absent
    /\ cache = NoCache(d)
    /\ mdl = NewModel(d)
    /\ call = NoCall
    /\ fs = NoFs

(* potIdeaths1.logp + potIdeaths2.logp at the current shapes and scales *)
EvalPotentials ==
    /\ lik.stage = "idle"
    /\ \E rI1 \in Regimes, rI2 \in Regimes, rU \in Regimes :
          LET pot(r) == IF lik.variant = "timeEst"
                        THEN PotIdeaths(d, r.s, r.tau, rU.s, rU.tau)
                        ELSE PotIdeathsHom(d, r.s, r.tau, rU.s, rU.tau)
          IN lik' = [lik EXCEPT !.stage = "evaluated",
                        !.last = [NoEval EXCEPT !.kind = "potentials",
                                     !.regI1 = rI1, !.regI2 = rI2, !.regU = rU,
                                     !.pot1 = pot(rI1), !.pot2 = pot(rI2),
                                     !.joint = AddLogp(pot(rI1), pot(rI2))]]
    /\ UNCHANGED <<d, trace, cache, mdl, call, fs>>

(* The logp of one death term at the current latent count and kernel values *)
EvalDeaths ==
    /\ lik.stage = "idle"
    /\ \E k \in 1..Len(lik.liks) :
          /\ lik.liks[k].kind = "LD"
          /\ \E I \in 0..lik.liks[k].nf :
             \E probdI \in DeathProbArrays(Len(ChangeTimes(d))),
                probdU \in DeathProbArrays(Len(ChangeTimes(d))) :
                LET t == lik.liks[k]
                    r == LikelihoodDeaths(t.value, t.nf, I, probdI, probdU)
                IN lik' = [lik EXCEPT !.stage = "evaluated",
                              !.last = [NoEval EXCEPT !.kind = "deaths", !.term = k,
                                           !.I = I, !.probI = probdI, !.probU = probdU,
                                           !.mix = r.mix, !.handed = r.handed,
                                           !.result = LogSum(r.handed)]]
    /\ UNCHANGED <<d, trace, cache, mdl, call, fs>>

(* The logp of one survivor term at the current latent count and kernel values *)
EvalSurvivors ==
    /\ lik.stage = "idle"
    /\ \E k \in 1..Len(lik.liks) :
          /\ lik.liks[k].kind = "LS"
          /\ \E I \in 0..lik.liks[k].nf, probsI \in ProbVals, probsU \in ProbVals :
                LET t == lik.liks[k]
                    r == LikelihoodSurvivors(t.value[1], t.nf, I, probsI, probsU)
                IN lik' = [lik EXCEPT !.stage = "evaluated",
                              !.last = [NoEval EXCEPT !.kind = "survivors", !.term = k,
                                           !.I = I, !.probI = <<probsI>>,
                                           !.probU = <<probsU>>,
                                           !.mix = r.mix, !.handed = r.handed,
                                           !.result = LogSum(r.handed)]]
    /\ UNCHANGED <<d, trace, cache, mdl, call, fs>>

(* The caller runs __lik_setup__ at the current values (comparison variant) *)
RunLikSetup ==
    /\ lik.stage = "idle"
    /\ lik.variant = "testHom"
    /\ \E v \in SetupValues(d) :
          lik' = [lik EXCEPT !.stage = "evaluated",
                     !.last = [NoEval EXCEPT !.kind = "setup",
                                  !.regI1 = v.regI1, !.regI2 = v.regI2, !.regU = v.regU,
                                  !.values = v,
                                  !.zeroprob = LikSetup(d, lik.liks, v)]]
    /\ UNCHANGED <<d, trace, cache, mdl, call, fs>>

(* The sampler moves on to its next iteration *)
NextIteration ==
    /\ lik.stage = "evaluated"
    /\ lik' = [lik EXCEPT !.stage = "idle", !.last = NoEval]
    /\ UNCHANGED <<d, trace, cache, mdl, call, fs>>

NextLik == EvalPotentials \/ EvalDeaths \/ EvalSurvivors \/ RunLikSetup \/ NextIteration

SpecLik == InitLik /\ [][NextLik]_vars

-----------------------------------------------------------------------------
(* The results folders: initializeModel and savedModel *)

(* Folder 0 is savePath/name/, folder i >= 1 its subfolder '(i)' *)
FolderIds == 0..MaxSubfolders

(* The results folders a call can meet.  A folder is absent, holds the files
   of an earlier run ("old"), or was written by the last call ("written");
   traces are the folders holding the saved trace <path><name>.pickle *)
FolderStates ==
    {[folders |-> [i \in FolderIds |-> IF i \in S THEN "old" ELSE "absent"],
      traces |-> T] :
        S \in {X \in SUBSET FolderIds : X = {} \/ 0 \in X}, T \in SUBSET FolderIds}

(* What the last call wrote becomes the files of an earlier run *)
Settled(f) ==
    [f EXCEPT !.folders = [i \in FolderIds |->
                              IF f.folders[i] = "written" THEN "old" ELSE f.folders[i]]]

(* initializeModel(data, bOverWrite=...), lines 63-96.  With bOverWrite false
   line 73 reads m.path, and no name m is defined in the function or the
   module: NameError, before any folder is made.  Otherwise folder 0 is made
   if missing (lines 81-82), data.pickle and prior.py are written there
   (87, 94) and Model.__init__ writes model.pickle (231) *)
InitializeModelResult(f, bOverWrite) ==
    IF ~bOverWrite
    THEN [outcome |-> "NameError", target |-> 0 - 1, fs |-> f]
    ELSE [outcome |-> "ok", target |-> 0, fs |-> [f EXCEPT !.folders[0] = "written"]]

(* savedModel(path) on folder i, lines 99-112.  The Model is rebuilt (105,
   which writes model.pickle again); with the trace pickle present line 109
   reads self and saved, neither of which is defined: NameError, which the
   handler of IOError does not catch; with it absent the IOError is passed
   over and the model returned *)
SavedModelResult(f, i) ==
    IF i \in f.traces
    THEN [outcome |-> "NameError", returned |-> FALSE,
          fs |-> [f EXCEPT !.folders[i] = "written"]]
    ELSE [outcome |-> "ok", returned |-> TRUE,
          fs |-> [f EXCEPT !.folders[i] = "written"]]

InitFiles ==
    /\ d \in LifeData
    /\ fs \in {f \in FolderStates : \A i \in f.traces : f.folders[i] # "absent"}
    /\ trace = Absent
    /\ cache = NoCache(d)
    /\ mdl = NewModel(d)
    /\ call = NoCall
    /\ lik = NoLik

InitializeModel ==
    \E bOverWrite \in BOOLEAN :
      \E r \in {InitializeModelResult(Settled(fs), bOverWrite)} :
        /\ fs' = r.fs
        /\ mdl' = NewModel(d)
        /\ call' = [op |-> "initializeModel", bOverWrite |-> bOverWrite,
                    outcome |-> r.outcome, target |-> r.target,
                    returned |-> r.outcome = "ok", fsWas |-> Settled(fs)]
        /\ UNCHANGED <<d, trace, cache, lik>>

SavedModel ==
    \E i \in FolderIds :
        /\ fs.folders[i] # "absent"
        /\ \E r \in {SavedModelResult(Settled(fs), i)} :
              /\ fs' = r.fs
              /\ mdl' = NewModel(d)
              /\ call' = [op |-> "savedModel", bOverWrite |-> FALSE,
                          outcome |-> r.outcome, target |-> i,
                          returned |-> r.returned, fsWas |-> Settled(fs)]
        /\ UNCHANGED <<d, trace, cache, lik>>

NextFiles == InitializeModel \/ SavedModel

SpecFiles == InitFiles /\ [][NextFiles]_vars

-----------------------------------------------------------------------------
(* The summary of the comparison variant: timeTestHom.py Model.__calc__ *)

HomBaseParameters ==
    <<"p1hom", "p1het", "a1", "b1", "p2hom", "p2het", "a2", "b2", "eps",
      "meanI1", "sI1", "meanI2", "sI2", "meanU", "sU", "k">>

(* I<g><m><i> for i in range(sum(d.doses==0), len(d.doses)), lines 84-87 *)
HomLatentNames(dd) ==
    LET lo == CountZero(dd.doses)
        n == Len(dd.doses) - lo
        pick(names) == [j \in 1..n |-> names[lo + j]]
    IN pick(<<"I1hom0", "I1hom1", "I1hom2">>) \o pick(<<"I1het0", "I1het1", "I1het2">>)
       \o pick(<<"I2hom0", "I2hom1", "I2hom2">>) \o pick(<<"I2het0", "I2het1", "I2het2">>)

HomParameters(dd) == HomBaseParameters \o HomLatentNames(dd)

HomParamSet(dd) == {HomParameters(dd)[j] : j \in 1..Len(HomParameters(dd))}

(* The i-th sample of a parameter of the comparison variant in trace
   variant v *)
SampleValueHom(p, i, v) ==
    CASE p = "p1hom" -> SampleValue("p", 0, i, v)
      [] p = "p1het" -> SampleValue("p", 0, i + 1, v)
      [] p = "p2hom" -> SampleValue("p", 1, i, v)
      [] p = "p2het" -> SampleValue("p", 1, i + 1, v)
      [] p = "a1" -> SampleValue("a2", 1, i, v)
      [] p = "b1" -> SampleValue("b2", 0, i + 1, v)
      [] OTHER -> SampleValue(p, 0, i, v)

(* The sample arrays '<parameter>s' the base class (lib/modelFunctions) has
   set on the model from the trace variant v for (burnin, thinF) *)
HomSamples(dd, v, burnin, thinF) ==
    [p \in HomParamSet(dd) |->
        Slice([i \in 1..NSamples |-> SampleValueHom(p, i, v)], burnin, thinF)]

(* m.vals of the comparison variant, line 77, before any summary *)
NoValsHom ==
    [ts |-> <<>>, cdf1hom_ci |-> <<>>, cdf2hom_ci |-> <<>>, cdf1het_ci |-> <<>>,
     cdf2het_ci |-> <<>>, x2 |-> <<>>, pi1hom_ci |-> <<>>, pi2hom_ci |-> <<>>,
     pi1het_ci |-> <<>>, pi2het_ci |-> <<>>, pdfU |-> <<>>, cdfU |-> <<>>,
     pdfI1 |-> <<>>, pdfI2 |-> <<>>]

NewModelHom(dd) ==
    [vals |-> NoValsHom,
     hasSamples |-> FALSE, samples |-> [p \in HomParamSet(dd) |-> <<>>],
     hasTaus |-> FALSE, taus |-> NoTaus]

NoCacheHom(dd) ==
    [present |-> FALSE, burnin |-> 0, thinF |-> 0, vals |-> NoValsHom,
     samples |-> [p \in HomParamSet(dd) |-> <<>>]]

(* Per-sample kernel curves over the time grid *)
KernelCurve(fn, S, ts, ss, taus) ==
    [j \in 1..Len(ss) |->
        [t \in 1..Len(ts) |->
            IF fn = "kpdf" THEN Kpdf(ts[t], ss[j], taus[j], S["k"][j])
            ELSE KCdf(ts[t], ss[j], taus[j], S["k"][j])]]

(* The dose-response probabilities of the four sub-models at log-dose e, per
   sample, lines 265-270 *)
HomAtGrid(S, x2, p) ==
    [i \in 1..Len(x2) |-> [j \in 1..Len(S["sU"]) |-> PiHomL(x2[i], S[p][j], S["eps"][j])]]

HetAtGrid(S, x2, p, a, b) ==
    [i \in 1..Len(x2) |-> [j \in 1..Len(S["sU"]) |->
        PiHetL(x2[i], S[p][j], S[a][j], S[b][j], S["eps"][j])]]

(* The infection probabilities at each dose level, per sample, lines 243-250 *)
HomAtDoses(dd, S, p) ==
    [di \in 1..dd.ndoses |-> [j \in 1..Len(S["sU"]) |->
        PiHom(dd.doses[di], S[p][j], S["eps"][j])]]

HetAtDoses(dd, S, p, a, b) ==
    [di \in 1..dd.ndoses |-> [j \in 1..Len(S["sU"]) |->
        PiHet(dd.doses[di], S[p][j], S[a][j], S[b][j], S["eps"][j])]]

(* The curves of lines 212-278 from the kernel curves: every survival curve
   is mixed with cdfI1 (lines 246-253), and pi2hets is computed with a1s, b1s
   (line 250) *)
HomCurves(dd, S, ts, x2, cdfU, cdfI1, pdfI1, pdfI2) ==
    [ts |-> ts,
     cdf1hom_ci |-> SurvivalCI(dd, HomAtDoses(dd, S, "p1hom"), cdfI1, cdfU, Len(ts)),
     cdf1het_ci |-> SurvivalCI(dd, HetAtDoses(dd, S, "p1het", "a1", "b1"), cdfI1, cdfU, Len(ts)),
     cdf2hom_ci |-> SurvivalCI(dd, HomAtDoses(dd, S, "p2hom"), cdfI1, cdfU, Len(ts)),
     cdf2het_ci |-> SurvivalCI(dd, HetAtDoses(dd, S, "p2het", "a1", "b1"), cdfI1, cdfU, Len(ts)),
     x2 |-> x2,
     pi1hom_ci |-> DoseResponseCI(HomAtGrid(S, x2, "p1hom"), Len(x2)),
     pi1het_ci |-> DoseResponseCI(HetAtGrid(S, x2, "p1het", "a1", "b1"), Len(x2)),
     pi2hom_ci |-> DoseResponseCI(HomAtGrid(S, x2, "p2hom"), Len(x2)),
     pi2het_ci |-> DoseResponseCI(HetAtGrid(S, x2, "p2het", "a2", "b2"), Len(x2)),
     pdfU |-> Confint([j \in 1..Len(cdfU) |-> [t \in 1..(Len(ts) - 1) |->
                          cdfU[j][t + 1] - cdfU[j][t]]], Len(ts) - 1),
     cdfU |-> Confint(cdfU, Len(ts)),
     pdfI1 |-> Confint(pdfI1, Len(ts)),
     pdfI2 |-> Confint(pdfI2, Len(ts))]

(* Model.__calc__ of the comparison variant, lines 197-278: the curves from
   the sample arrays S *)
SummarizeHom(dd, S) ==
    HomCurves(dd, S, Ts(dd), X2(dd),
              KernelCurve("kpdfInt", S, Ts(dd), S["sU"], TauArrays(S).tauUs),
              KernelCurve("kpdfInt", S, Ts(dd), S["sI1"], TauArrays(S).tauI1s),
              KernelCurve("kpdf", S, Ts(dd), S["sI1"], TauArrays(S).tauI1s),
              KernelCurve("kpdf", S, Ts(dd), S["sI2"], TauArrays(S).tauI2s))

(* Trace variants of the comparison variant *)
HomVariants == {0, 1}

InitHom ==
    /\ d \in LifeData
    /\ trace \in {[present |-> TRUE, variant |-> v, nchains |-> 1] : v \in HomVariants}
    /\ cache = NoCacheHom(d)
    /\ mdl = NewModelHom(d)
    /\ call = NoCall
    /\ lik = NoLik
    /\ fs = NoFs

(* The base class loads the trace for (burnin, thinF): it sets the sample
   arrays and self.burnin, self.thinF (the base class is outside these
   sources) *)
LoadHom ==
    \E burnin \in 0..(NSamples - 1), thinF \in Thins :
        /\ mdl' = [mdl EXCEPT !.hasSamples = TRUE,
                              !.samples = HomSamples(d, trace.variant, burnin, thinF)]
        /\ call' = [NoCall EXCEPT !.op = "loadHom", !.burnin = burnin, !.thinF = thinF,
                                  !.seq = 1 - call.seq]
        /\ UNCHANGED <<d, trace, cache, lik, fs>>

(* Model.__calc__() of the comparison variant, lines 197-288 *)
CalcHom ==
    /\ mdl.hasSamples
    /\ \E vals \in {SummarizeHom(d, mdl.samples)} :
          /\ mdl' = [mdl EXCEPT !.hasTaus = TRUE, !.taus = TauArrays(mdl.samples),
                                !.vals = vals]
          /\ cache' = [present |-> TRUE, burnin |-> call.burnin, thinF |-> call.thinF,
                       vals |-> vals, samples |-> mdl.samples]
    /\ call' = [call EXCEPT !.op = "calcHom", !.path = "calc", !.seq = 1 - call.seq]
    /\ UNCHANGED <<d, trace, lik, fs>>

NextHom == LoadHom \/ CalcHom

SpecHom == InitHom /\ [][NextHom]_vars

-----------------------------------------------------------------------------
(* Properties of the summary lifecycle *)

(* The step is a call of calcPosterior with bOverWrite=False *)
CallStep == call'.op = "calcPosterior" /\ call'.seq # call.seq

PairDiffers(saved, burnin, thinF) == saved.burnin # burnin \/ saved.thinF # thinF

(* C1: calcPosterior(burnin, thinF, bOverWrite=False) imports the cached
   summary only if the cache's stored burnin and thinF both equal the
   requested ones; when the stored pair differs in either component the call
   copies nothing into the model. *)
C1_ImportOnlyOnExactMatch ==
    [][(CallStep /\ ~call'.bOverWrite /\ cache.present) =>
          /\ call'.path = "import" => CacheMatches(cache, call'.burnin, call'.thinF)
          /\ PairDiffers(cache, call'.burnin, call'.thinF) =>
                call'.path # "import" /\ mdl' = mdl]_vars

(* A call with bOverWrite=False met a cache whose thinF alone differed and
   left the summarized model as it was *)
C1_Witness ==
    /\ call.op = "calcPosterior" /\ ~call.bOverWrite
    /\ call.cacheWas.present
    /\ call.cacheWas.burnin = call.burnin /\ call.cacheWas.thinF # call.thinF
    /\ call.path = "none"
    /\ mdl.vals # NoVals

(* The trace file held one chain longer than both burn-ins: nothing but the
   cache decides what the call does *)
PlainTrace(tr, b1, b2) ==
    tr.present /\ tr.nchains = 1 /\ b1 < NSamples /\ b2 < NSamples

(* C2: after calcPosterior(burnin, thinF, bOverWrite=False) on a cache whose
   stored pair differs from the requested one, the model's curves and the
   persisted cache are those computed from the trace for the requested pair. *)
C2_StaleCacheRecomputed ==
    (/\ call.op = "calcPosterior" /\ ~call.bOverWrite
     /\ call.cacheWas.present
     /\ PairDiffers(call.cacheWas, call.burnin, call.thinF)
     /\ PlainTrace(call.traceWas, call.burnin, call.cacheWas.burnin))
    => /\ call.path = "calc"
       /\ cache.present /\ cache.burnin = call.burnin /\ cache.thinF = call.thinF
       /\ cache.vals = Derived[d][trace][call.burnin][call.thinF].vals
       /\ mdl.vals = cache.vals

(* C3: two calls in a row with the same (burnin, thinF) on an unchanged
   trace, the second with bOverWrite=False: the second leaves the curves and
   the sample arrays as the first left them and is served from the cache. *)
C3_RepeatServedFromCache ==
    [][(/\ CallStep /\ ~call'.bOverWrite
        /\ call.op = "calcPosterior" /\ call.outcome = "ok"
        /\ call'.burnin = call.burnin /\ call'.thinF = call.thinF)
       => /\ call'.path = "import"
          /\ mdl'.vals = mdl.vals
          /\ mdl'.samples = mdl.samples]_vars

(* C4: with bOverWrite=False and no cache file, a present trace file is
   summarized (the call completes, the model holds the curves, the cache is
   written with the requested pair); with the trace file absent too the call
   fails and the model is left without a summary. *)
C4_MissingCacheRecovered ==
    (call.op = "calcPosterior" /\ ~call.bOverWrite /\ ~call.cacheWas.present)
    => IF call.traceWas.present
       THEN /\ call.outcome = "ok" /\ call.path = "calc"
            /\ mdl.vals = Derived[d][trace][call.burnin][call.thinF].vals
            /\ cache.present /\ cache.burnin = call.burnin /\ cache.thinF = call.thinF
            /\ cache.vals = mdl.vals
       ELSE call.outcome = "IOError" /\ mdl.vals = NoVals /\ ~cache.present

(* The concatenation, in chain order, of every chain's slice *)
RECURSIVE ConcatChains(_, _, _, _)
ConcatChains(chains, c, burnin, thinF) ==
    IF c \notin DOMAIN chains THEN <<>>
    ELSE Slice(chains[c], burnin, thinF) \o ConcatChains(chains, c + 1, burnin, thinF)

(* C5: for a trace of C >= 1 chains __calc__ loads, for each parameter, the
   concatenation in chain order of every chain's samples after dropping that
   chain's first burnin samples and keeping every thinF-th remaining one. *)
C5_AllChainsLoaded ==
    (call.op = "calcPosterior" /\ call.path = "calc" /\ call.burnin < NSamples)
    => /\ call.outcome = "ok"
       /\ mdl.hasSamples
       /\ \A p \in ParamSet(d) :
             mdl.samples[p] = ConcatChains(M2(d, trace)[p], 0, call.burnin, call.thinF)

(* C6: with burnin at least the chain length __calc__ fails with an error and
   never leaves an empty sample array for a parameter. *)
C6_BurninBeyondChainFails ==
    (/\ call.op = "calcPosterior" /\ call.path = "calc"
     /\ call.traceWas.nchains = 1 /\ call.burnin >= NSamples)
    => /\ call.outcome # "ok"
       /\ ~(mdl.hasSamples /\ \E p \in ParamSet(d) : mdl.samples[p] = <<>>)

(* The survival curve the summary should hold at dose level di for a group
   with per-dose infection probabilities pisAt and infected curve cdfI *)
ExpectedSurvival(dd, di, pisAt, cdfI, cdfU, nt) ==
    IF dd.doses[di] > 0 THEN Confint(Mixture(pisAt[di], cdfI, cdfU, nt), nt)
    ELSE Confint(Uninfected(cdfU, nt), nt)

(* C10: at every dose level di of the dose array, the survival curve of
   group 1 and of group 2 is the credible interval of the infection-weighted
   mixture when doses[di] > 0 and of the uninfected curve when doses[di] = 0. *)
C10_SurvivalPerDoseLevel ==
    (call.op = "calcPosterior" /\ call.path = "calc" /\ call.outcome = "ok"
     /\ call.burnin < NSamples)
    => LET S == mdl.samples
           n == Len(S["sU"])
           ts == mdl.vals.ts
           nt == Len(ts)
           cdf(ss, taus) == [j \in 1..n |-> [t \in 1..nt |->
                                KCdf(ts[t], ss[j], taus[j], S["k"][j])]]
           cdfU == cdf(S["sU"], mdl.taus.tauUs)
           cdfI1 == cdf(S["sI1"], mdl.taus.tauI1s)
           cdfI2 == cdf(S["sI2"], mdl.taus.tauI2s)
           pi1s == [di \in 1..d.ndoses |-> [j \in 1..n |->
                       PiHom(d.doses[di], S["p"][j], S["eps"][j])]]
           pi2s == [di \in 1..d.ndoses |-> [j \in 1..n |->
                       PiHet(d.doses[di], S["p"][j], S["a2"][j], S["b2"][j], S["eps"][j])]]
       IN \A di \in 1..d.ndoses : \A b \in 1..3 :
             /\ mdl.vals.cdf1_ci[b][di] = ExpectedSurvival(d, di, pi1s, cdfI1, cdfU, nt)[b]
             /\ mdl.vals.cdf2_ci[b][di] = ExpectedSurvival(d, di, pi2s, cdfI2, cdfU, nt)[b]

(* The call computed the summary from a trace that left samples *)
Computed ==
    /\ call.op = "calcPosterior" /\ call.path = "calc" /\ call.outcome = "ok"
    /\ call.burnin < NSamples

(* The cumulative curve per sample and time of the regime (ss, taus), from
   the sample arrays the model holds *)
CumulativeOf(ss, taus) ==
    [j \in 1..Len(mdl.samples["sU"]) |-> [t \in 1..Len(mdl.vals.ts) |->
        KCdf(mdl.vals.ts[t], ss[j], taus[j], mdl.samples["k"][j])]]

(* The credible interval of the finite differences of a cumulative curve *)
Differenced(cdf) ==
    Confint([j \in 1..Len(cdf) |-> [t \in 1..(Len(mdl.vals.ts) - 1) |->
                cdf[j][t + 1] - cdf[j][t]]], Len(mdl.vals.ts) - 1)

(* C11: each density curve of the summary (pdfU, pdfI1, pdfI2) is the
   credible interval of the finite differences of the corresponding
   cumulative curve over the time grid. *)
C11_DensitiesByDifferencing ==
    Computed =>
        /\ mdl.vals.pdfU = Differenced(CumulativeOf(mdl.samples["sU"], mdl.taus.tauUs))
        /\ mdl.vals.pdfI1 = Differenced(CumulativeOf(mdl.samples["sI1"], mdl.taus.tauI1s))
        /\ mdl.vals.pdfI2 = Differenced(CumulativeOf(mdl.samples["sI2"], mdl.taus.tauI2s))

(* a <= b as floating-point numbers compare: false when either is not a
   number *)
LeqFloat(a, b) == a # NaN /\ b # NaN /\ a <= b

(* ci[bound][column]: lower <= median <= upper in every column *)
Ordered(ci) ==
    \A c \in 1..Len(ci[1]) : LeqFloat(ci[1][c], ci[2][c]) /\ LeqFloat(ci[2][c], ci[3][c])

(* ci[bound][dose level][time]: ordered at every dose level and time *)
OrderedPerDose(ci) ==
    \A di \in 1..Len(ci[1]) : Ordered([b \in 1..3 |-> ci[b][di]])

(* C12: for every curve of the summary the model holds (cdf1_ci, cdf2_ci,
   pi1_ci, pi2_ci, pdfU, cdfU, pdfI1, pdfI2) and every grid point, the stored
   bounds satisfy lower <= median <= upper. *)
C12_BoundsOrdered ==
    mdl.vals # NoVals =>
        /\ OrderedPerDose(mdl.vals.cdf1_ci) /\ OrderedPerDose(mdl.vals.cdf2_ci)
        /\ Ordered(mdl.vals.pi1_ci) /\ Ordered(mdl.vals.pi2_ci)
        /\ Ordered(mdl.vals.pdfU) /\ Ordered(mdl.vals.cdfU)
        /\ Ordered(mdl.vals.pdfI1) /\ Ordered(mdl.vals.pdfI2)

(* The cache file's tag is the pair its curves and samples were computed
   with, from some trace the sampler wrote *)
TagMatchesCurves ==
    cache.present =>
        \E tr \in Traces :
            /\ cache.vals = Derived[d][tr][cache.burnin][cache.thinF].vals
            /\ cache.samples = Derived[d][tr][cache.burnin][cache.thinF].samples

(* C15: calcPosterior(burnin, thinF, bOverWrite=True) on a present trace
   recomputes the summary and overwrites the cache with one tagged
   (burnin, thinF), whatever the cache held; and in every state the tag of
   the cache file is the pair its curves were computed with. *)
C15_OverwriteRecomputes ==
    /\ (call.op = "calcPosterior" /\ call.bOverWrite /\ call.traceWas.present)
       => /\ call.path = "calc" /\ call.outcome = "ok"
          /\ cache.present /\ cache.burnin = call.burnin /\ cache.thinF = call.thinF
          /\ cache.vals = Derived[d][trace][call.burnin][call.thinF].vals
          /\ mdl.vals = cache.vals
    /\ TagMatchesCurves

-----------------------------------------------------------------------------
(* Properties of the likelihood side *)

(* The infected regime of group g at the last evaluation of the potentials *)
RegimeOf(g) == IF g = 1 THEN lik.last.regI1 ELSE lik.last.regI2

PotOf(g) == IF g = 1 THEN lik.last.pot1 ELSE lik.last.pot2

(* Group g's infected cumulative death probability at the end of the study
   is strictly less than the uninfected one *)
Violates(g) ==
    GammaCdf(d.tmax, RegimeOf(g).s, RegimeOf(g).tau)
        < GammaCdf(d.tmax, lik.last.regU.s, lik.last.regU.tau)

(* C7: in both model variants potIdeaths<g> contributes -infinity exactly
   when group g's infected cumulative death probability at study end is
   strictly less than the uninfected one and exactly 0 otherwise (equality
   is accepted); the potentials' sum is -infinity if and only if some group
   violates the constraint, and no other value is ever returned. *)
C7_HardMonotonicityGate ==
    lik.built /\ lik.last.kind = "potentials" =>
        /\ \A g \in {1, 2} :
              PotOf(g) = IF Violates(g) THEN MinusInf ELSE Finite(0)
        /\ lik.last.joint = IF Violates(1) \/ Violates(2) THEN MinusInf ELSE Finite(0)

(* The potentials were evaluated in the comparison variant where group 1 has
   equal cumulative probabilities (accepted) and group 2 violates *)
C7_Witness ==
    /\ lik.built /\ lik.variant = "testHom" /\ lik.last.kind = "potentials"
    /\ GammaCdf(d.tmax, lik.last.regI1.s, lik.last.regI1.tau)
           = GammaCdf(d.tmax, lik.last.regU.s, lik.last.regU.tau)
    /\ lik.last.pot1 = Finite(0)
    /\ Violates(2) /\ lik.last.pot2 = MinusInf

(* How many terms of m.liks are of this kind, group and 0-based dose index *)
CountTerms(kind, g, i) ==
    Cardinality({k \in 1..Len(lik.liks) :
                    /\ lik.liks[k].kind = kind
                    /\ lik.liks[k].group = g
                    /\ lik.liks[k].dose = i})

SurvivorsOf(g, pos) == IF g = 1 THEN d.survivors1[pos] ELSE d.survivors2[pos]

(* C8: after construction m.liks holds, for every dose level with dose > 0
   and each group, exactly one death term, and one survivor term exactly when
   that group and dose has survivors; it holds no term for the control dose;
   every group-g term has group g's latent count, group g's host count and
   group g's infected probabilities as parents, and the shared uninfected
   probabilities. *)
C8_LikelihoodTerms ==
    lik.built /\ lik.variant = "timeEst" =>
        /\ \A pos \in 1..Len(d.doses) : \A g \in {1, 2} :
              IF d.doses[pos] > 0
              THEN /\ CountTerms("LD", g, pos - 1) = 1
                   /\ CountTerms("LS", g, pos - 1)
                          = IF SurvivorsOf(g, pos) > 0 THEN 1 ELSE 0
              ELSE CountTerms("LD", g, pos - 1) = 0 /\ CountTerms("LS", g, pos - 1) = 0
        /\ \A k \in 1..Len(lik.liks) :
              LET t == lik.liks[k]
              IN /\ t.kind \in {"LD", "LS"} /\ t.group \in {1, 2}
                 /\ t.dose \in 0..(Len(d.doses) - 1)
                 /\ t.I = [group |-> t.group, sub |-> "", dose |-> t.dose]
                 /\ t.nf = (IF t.group = 1 THEN d.nhosts1 ELSE d.nhosts2)[t.dose + 1]
                 /\ t.probI = (IF t.kind = "LD"
                               THEN <<"probdI1", "probdI2">> ELSE <<"probsI1", "probsI2">>)[t.group]
                 /\ t.probU = IF t.kind = "LD" THEN "probdU" ELSE "probsU"

(* A model built on data with a control dose whose infected dose level has
   survivors in group 2 and none in group 1 *)
C8_Witness ==
    /\ lik.built /\ lik.variant = "timeEst" /\ lik.stage = "idle"
    /\ d.doses[1] = 0
    /\ d.survivors1[2] = 0 /\ d.survivors2[2] > 0
    /\ Len(lik.liks) = 3

(* C9: in likelihood_deaths and likelihood_survivors, whenever the mixture
   (I/nf)*probI + (1-I/nf)*probU is negative the value handed to the logarithm
   is 0: never a negative number, never a positive number obtained from a
   negative mixture, whatever the survivor count. *)
C9_NegativeMixtureClamped ==
    lik.built /\ lik.last.kind \in {"deaths", "survivors"} =>
        \A x \in 1..Len(lik.last.mix) :
            lik.last.mix[x] < 0 => lik.last.handed[x] = 0

(* C13: in the comparison variant __lik_setup__ returns 1 exactly when the
   joint log-probability at the current values (every likelihood term and
   both potentials) is -infinity, and 0 when it is finite; it always returns. *)
C13_ZeroProbabilityReturned ==
    lik.built /\ lik.last.kind = "setup" =>
        /\ lik.last.zeroprob \in {0, 1}
        /\ lik.last.zeroprob = 1 <=>
              \/ \E k \in 1..Len(lik.liks) :
                    TermLogp(lik.liks[k], lik.last.values) = "neginf"
              \/ Violates(1)
              \/ Violates(2)

(* A setup where every likelihood term is finite and only the potential of
   group 2 forbids the current values: 1 is returned *)
C13_Witness ==
    /\ lik.built /\ lik.last.kind = "setup"
    /\ \A k \in 1..Len(lik.liks) : TermLogp(lik.liks[k], lik.last.values) = "finite"
    /\ ~Violates(1) /\ Violates(2)
    /\ lik.last.zeroprob = 1

-----------------------------------------------------------------------------
(* Properties of the results folders *)

(* The smallest i >= 1 whose subfolder '(i)' does not exist in folders *)
FirstFree(folders) ==
    CHOOSE i \in 1..MaxSubfolders :
        folders[i] = "absent" /\ \A j \in 1..(i - 1) : folders[j] # "absent"

(* C14: initializeModel with bOverWrite=False on an existing results folder
   makes the subfolder '(i)' of the smallest i >= 1 not yet existing, saves
   data, priors and model metadata there and leaves every existing folder's
   files unchanged; with bOverWrite=True it writes into the existing folder. *)
C14_NumberedSubfolder ==
    (/\ call.op = "initializeModel"
     /\ call.fsWas.folders[0] # "absent"
     /\ \E i \in 1..MaxSubfolders : call.fsWas.folders[i] = "absent")
    => IF call.bOverWrite
       THEN call.outcome = "ok" /\ call.target = 0 /\ fs.folders[0] = "written"
       ELSE /\ call.outcome = "ok"
            /\ call.target = FirstFree(call.fsWas.folders)
            /\ \A i \in FolderIds :
                  fs.folders[i] = IF i = call.target THEN "written"
                                  ELSE call.fsWas.folders[i]

-----------------------------------------------------------------------------
(* Properties of the comparison variant's summary *)

(* The mixture curve of group g at dose level di with infection
   probabilities pisAt, from the samples the model holds *)
OwnMixtureCI(g, pisAt, di) ==
    LET S == mdl.samples
        ts == mdl.vals.ts
        cdfU == KernelCurve("kpdfInt", S, ts, S["sU"], mdl.taus.tauUs)
        cdfI == IF g = 1 THEN KernelCurve("kpdfInt", S, ts, S["sI1"], mdl.taus.tauI1s)
                ELSE KernelCurve("kpdfInt", S, ts, S["sI2"], mdl.taus.tauI2s)
    IN Confint(Mixture(pisAt[di], cdfI, cdfU, Len(ts)), Len(ts))

(* C16: in the comparison variant's summary each survival curve
   cdf<g><m>_ci at a dose > 0 is the credible interval of the mixture of
   group g's own infected curve cdfI<g> with the uninfected curve, weighted
   by the infection probability of that sub-model's own parameters
   (p<g>hom; p<g>het, a<g>, b<g>). *)
C16_OwnCurveAndParameters ==
    call.op = "calcHom" =>
        \A di \in 1..d.ndoses : \A b \in 1..3 :
            d.doses[di] > 0 =>
              /\ mdl.vals.cdf1hom_ci[b][di]
                   = OwnMixtureCI(1, HomAtDoses(d, mdl.samples, "p1hom"), di)[b]
              /\ mdl.vals.cdf1het_ci[b][di]
                   = OwnMixtureCI(1, HetAtDoses(d, mdl.samples, "p1het", "a1", "b1"), di)[b]
              /\ mdl.vals.cdf2hom_ci[b][di]
                   = OwnMixtureCI(2, HomAtDoses(d, mdl.samples, "p2hom"), di)[b]
              /\ mdl.vals.cdf2het_ci[b][di]
                   = OwnMixtureCI(2, HetAtDoses(d, mdl.samples, "p2het", "a2", "b2"), di)[b]

-----------------------------------------------------------------------------
(* The 0-based sample indices kept for (burnin, thinF) out of n samples, in
   increasing order: burnin, burnin + thinF, ... below n *)
KeptIndices(n, burnin, thinF) ==
    SelectSeq([i \in 1..n |-> i - 1],
              LAMBDA i : i >= burnin /\ (i - burnin) % thinF = 0)

(* ceil(a / b) for a >= 0, b >= 1 *)
CeilDiv(a, b) == CHOOSE n \in 0..a : n * b >= a /\ (n = 0 \/ (n - 1) * b < a)

(* C17: for a single-chain trace of N samples per parameter and
   0 <= burnin < N, thinF >= 1, after __calc__ every parameter's loaded
   array holds exactly the samples at indices burnin, burnin + thinF, ...
   in their original order; all arrays have the same length
   ceil((N - burnin) / thinF), and index i of every array comes from the
   same sampler iteration. *)
C17_BurninAndThinning ==
    (/\ call.op = "calcPosterior" /\ call.path = "calc"
     /\ call.traceWas.present /\ call.traceWas.nchains = 1
     /\ call.burnin < NSamples)
    => LET kept == KeptIndices(NSamples, call.burnin, call.thinF)
       IN /\ mdl.hasSamples
          /\ Len(kept) = CeilDiv(NSamples - call.burnin, call.thinF)
          /\ \A p \in ParamSet(d) :
               /\ Len(mdl.samples[p]) = Len(kept)
               /\ \A i \in 1..Len(kept) :
                    mdl.samples[p][i]
                      = SampleValue(p, 0, kept[i] + 1, call.traceWas.variant)

(* A single-chain trace loaded with burnin 0 and thinF 2: the first and the
   third sample are kept *)
C17_Witness ==
    /\ call.op = "calcPosterior" /\ call.path = "calc" /\ call.outcome = "ok"
    /\ call.traceWas.present /\ call.traceWas.nchains = 1
    /\ call.burnin = 0 /\ call.thinF = 2
    /\ Len(mdl.samples["sU"]) = 2
    /\ mdl.samples["sU"][2] = SampleValue("sU", 0, 3, call.traceWas.variant)

-----------------------------------------------------------------------------
(* C18: savedModel(path) returns a Model in both cases: with the saved trace
   pickle absent it returns the model without sample arrays and without
   raising; with the pickle present it returns the model with every
   parameter's sample array restored as '<parameter>s'. *)
C18_SavedModelReturns ==
    call.op = "savedModel" =>
        /\ call.returned /\ call.outcome = "ok"
        /\ (call.target \in call.fsWas.traces) = mdl.hasSamples

(* The half of C18 with the trace pickle absent *)
C18_AbsentPickle ==
    (call.op = "savedModel" /\ call.target \notin call.fsWas.traces) =>
        call.returned /\ call.outcome = "ok" /\ ~mdl.hasSamples

-----------------------------------------------------------------------------
(* C19: the model state after calcPosterior imported a cached summary is the
   state the computation that wrote the cache produced: the same summary
   curves (every name of vals), the same parameter sample arrays and the
   same scale arrays tauUs, tauI1s, tauI2s (mean/shape per sample). *)
C19_ImportEqualsComputation ==
    (call.op = "calcPosterior" /\ call.path = "import") =>
        /\ mdl.vals = cache.vals
        /\ mdl.hasSamples /\ mdl.samples = cache.samples
        /\ mdl.hasTaus /\ mdl.taus = TauArrays(cache.samples)

(* The part of C19 about the curves and the sample arrays *)
C19_CurvesAndSamples ==
    (call.op = "calcPosterior" /\ call.path = "import") =>
        /\ mdl.vals = cache.vals
        /\ mdl.hasSamples /\ mdl.samples = cache.samples

-----------------------------------------------------------------------------
(* The latent counts of group g at the dose level of 1-based position pos *)
LatentsAt(g, pos) ==
    {k \in 1..Len(lik.latents) :
        lik.latents[k].group = g /\ lik.latents[k].dose = pos - 1}

(* The deaths of group g at position pos that fall before tmax/2 *)
DeathsBeforeHalf(g, pos) ==
    LET tds == IF g = 1 THEN d.timesDeath1[pos] ELSE d.timesDeath2[pos]
    IN Cardinality({j \in 1..Len(tds) : 2 * tds[j] < d.tmax})

HostsAt(g, pos) == IF g = 1 THEN d.nhosts1[pos] ELSE d.nhosts2[pos]

(* C20: with nhosts = deaths + survivors, Model construction creates exactly
   one latent infection count per group per dose level with dose > 0 and
   none for the control dose; its trials count is the group's nhosts at that
   dose and its initial value, the deaths before tmax/2 at that dose, lies
   in 0..nhosts.  Every likelihood term divides its latent count by the same
   nhosts, so the mixture weight I/nhosts lies in [0,1] at the initial value
   and at every value the latent count is evaluated at. *)
C20_LatentCounts ==
    (lik.built /\ lik.variant = "timeEst") =>
        /\ \A g \in {1, 2} : \A pos \in 1..d.ndoses :
              /\ Cardinality(LatentsAt(g, pos)) = (IF d.doses[pos] > 0 THEN 1 ELSE 0)
              /\ \A k \in LatentsAt(g, pos) :
                    /\ lik.latents[k].n = HostsAt(g, pos)
                    /\ lik.latents[k].value = DeathsBeforeHalf(g, pos)
                    /\ lik.latents[k].value \in 0..lik.latents[k].n
                    /\ lik.latents[k].n > 0
        /\ \A t \in 1..Len(lik.liks) :
              \E k \in 1..Len(lik.latents) :
                  /\ lik.latents[k].group = lik.liks[t].I.group
                  /\ lik.latents[k].dose = lik.liks[t].I.dose
                  /\ lik.liks[t].nf = lik.latents[k].n
        /\ lik.last.kind \in {"deaths", "survivors"} =>
              /\ lik.liks[lik.last.term].nf > 0
              /\ 0 <= lik.last.I /\ lik.last.I <= lik.liks[lik.last.term].nf

(* A model with a control dose, whose group 1 latent at the infected dose
   starts at one death before tmax/2 out of three hosts, and a death term
   evaluated at a latent count of all hosts infected *)
C20_Witness ==
    /\ lik.built /\ lik.variant = "timeEst"
    /\ d.doses[1] = 0
    /\ Len(lik.latents) = 2
    /\ lik.latents[1].value = 1 /\ lik.latents[1].n = 3
    /\ lik.last.kind = "deaths"
    /\ lik.last.I = lik.liks[lik.last.term].nf

====
